---- MODULE Spec2Model ----
(***************************************************************************)
(* Model of ingestion_script.py: the MLB and NFL feature pre-computation   *)
(* runs (precompute_mlb_features, precompute_nfl_features) and main.       *)
(*                                                                         *)
(* A DataFrame is a sequence of records (row order matters).  Numbers are  *)
(* exact: a value the code holds as a float is kept as an integer over a   *)
(* fixed denominator or as a fraction <<numerator, denominator>>, so that  *)
(* equalities of the real-number formulas are decided exactly.             *)
(***************************************************************************)
EXTENDS Integers, Sequences, FiniteSets, TLC

VARIABLES
    pc,                 \* position of main / of the run it has called
    db_url,             \* DB_URL (line 10): "set" or "missing"
    db_present,         \* the tables the database can serve to read_sql
    tbl_games, tbl_batter_stats, tbl_pitcher_stats, tbl_nfl_games,
    files,              \* file name -> the snapshot artifact on disk
    returned,           \* what each run handed back to main
    printed,            \* the closing message each run printed (lines 114, 119, 200, 205)
    \* locals of precompute_mlb_features
    games_df, batter_stats_df, pitcher_stats_df, team_pitching_agg,
    team_hitting_agg, batter_agg, home_batter_agg, away_batter_agg,
    latest_features,
    \* locals of precompute_nfl_features
    nfl_games_df, team_game_stats, offensive_rank_df, defensive_rank_df,
    home_games_stats, away_games_stats, latest_nfl_features

db_vars == <<db_url, db_present, tbl_games, tbl_batter_stats, tbl_pitcher_stats, tbl_nfl_games>>

mlb_locals == <<games_df, batter_stats_df, pitcher_stats_df, team_pitching_agg,
                team_hitting_agg, batter_agg, home_batter_agg, away_batter_agg,
                latest_features>>

nfl_locals == <<nfl_games_df, team_game_stats, offensive_rank_df, defensive_rank_df,
                home_games_stats, away_games_stats, latest_nfl_features>>

vars == <<pc, db_vars, files, returned, printed, mlb_locals, nfl_locals>>

-----------------------------------------------------------------------------
(* Missing values.  NaN is the missing number (counts, scores, ranks and   *)
(* times of the model are never negative), NaNStr the missing string, NaNF *)
(* the missing fraction.                                                   *)
NaN == -1

NaNStr == "NaN"

NaNF == <<0, 0>>

(* DataFrame.fillna(0) on an object column writes the number 0 into it; the *)
(* model keeps team keys as strings and writes the key "0".                *)
FillZeroKey == "0"

-----------------------------------------------------------------------------
(* The name-to-code tables.                                                *)
MLB_TEAM_NAME_MAP ==
    "ARI" :> "ARI" @@ "ATL" :> "ATL" @@ "BAL" :> "BAL" @@ "BOS" :> "BOS" @@ "CHC" :> "CHC" @@
    "CHW" :> "CHW" @@ "CIN" :> "CIN" @@ "CLE" :> "CLE" @@ "COL" :> "COL" @@ "DET" :> "DET" @@
    "HOU" :> "HOU" @@ "KCR" :> "KC" @@ "KC" :> "KC" @@ "LAA" :> "LAA" @@ "LAD" :> "LAD" @@
    "MIA" :> "MIA" @@ "MIL" :> "MIL" @@ "MIN" :> "MIN" @@ "NYM" :> "NYM" @@ "NYY" :> "NYY" @@
    "OAK" :> "OAK" @@ "PHI" :> "PHI" @@ "PIT" :> "PIT" @@ "SDP" :> "SD" @@ "SD" :> "SD" @@
    "SFG" :> "SF" @@ "SF" :> "SF" @@ "SEA" :> "SEA" @@ "STL" :> "STL" @@ "TBR" :> "TB" @@
    "TB" :> "TB" @@ "TEX" :> "TEX" @@ "TOR" :> "TOR" @@ "WSN" :> "WSH" @@ "WAS" :> "WSH" @@
    "Arizona Diamondbacks" :> "ARI" @@ "Atlanta Braves" :> "ATL" @@ "Baltimore Orioles" :> "BAL" @@
    "Boston Red Sox" :> "BOS" @@ "Chicago Cubs" :> "CHC" @@ "Chicago White Sox" :> "CHW" @@
    "Cincinnati Reds" :> "CIN" @@ "Cleveland Guardians" :> "CLE" @@ "Colorado Rockies" :> "COL" @@
    "Detroit Tigers" :> "DET" @@ "Houston Astros" :> "HOU" @@ "Kansas City Royals" :> "KC" @@
    "Los Angeles Angels" :> "LAA" @@ "Los Angeles Dodgers" :> "LAD" @@ "Miami Marlins" :> "MIA" @@
    "Milwaukee Brewers" :> "MIL" @@ "Minnesota Twins" :> "MIN" @@ "New York Mets" :> "NYM" @@
    "New York Yankees" :> "NYY" @@ "Oakland Athletics" :> "OAK" @@
    "Philadelphia Phillies" :> "PHI" @@ "Pittsburgh Pirates" :> "PIT" @@
    "San Diego Padres" :> "SD" @@ "San Francisco Giants" :> "SF" @@ "Seattle Mariners" :> "SEA" @@
    "St. Louis Cardinals" :> "STL" @@ "Tampa Bay Rays" :> "TB" @@ "Texas Rangers" :> "TEX" @@
    "Toronto Blue Jays" :> "TOR" @@ "Washington Nationals" :> "WSH" @@ "Diamondbacks" :> "ARI" @@
    "D-backs" :> "ARI" @@ "Braves" :> "ATL" @@ "Orioles" :> "BAL" @@ "Red Sox" :> "BOS" @@
    "Cubs" :> "CHC" @@ "White Sox" :> "CHW" @@ "Reds" :> "CIN" @@ "Guardians" :> "CLE" @@
    "Indians" :> "CLE" @@ "Rockies" :> "COL" @@ "Angels" :> "LAA" @@ "Dodgers" :> "LAD" @@
    "Marlins" :> "MIA" @@ "Brewers" :> "MIL" @@ "Twins" :> "MIN" @@ "Mets" :> "NYM" @@
    "Yankees" :> "NYY" @@ "Athletics" :> "OAK" @@ "Phillies" :> "PHI" @@ "Pirates" :> "PIT" @@
    "Padres" :> "SD" @@ "Giants" :> "SF" @@ "Mariners" :> "SEA" @@ "Cardinals" :> "STL" @@
    "Rays" :> "TB" @@ "Rangers" :> "TEX" @@ "Blue Jays" :> "TOR" @@ "Nationals" :> "WSH" @@
    "ARZ" :> "ARI" @@ "AZ" :> "ARI" @@ "CWS" :> "CHW" @@ "NY Mets" :> "NYM" @@
    "WSH Nationals" :> "WSH" @@ "METS" :> "NYM" @@ "YANKEES" :> "NYY" @@ "ATH" :> "OAK"

nfl_team_name_map ==
    "ARI" :> "Arizona Cardinals" @@ "ATL" :> "Atlanta Falcons" @@ "BAL" :> "Baltimore Ravens" @@
    "BUF" :> "Buffalo Bills" @@ "CAR" :> "Carolina Panthers" @@ "CHI" :> "Chicago Bears" @@
    "CIN" :> "Cincinnati Bengals" @@ "CLE" :> "Cleveland Browns" @@ "DAL" :> "Dallas Cowboys" @@
    "DEN" :> "Denver Broncos" @@ "DET" :> "Detroit Lions" @@ "GB" :> "Green Bay Packers" @@
    "HOU" :> "Houston Texans" @@ "IND" :> "Indianapolis Colts" @@
    "JAX" :> "Jacksonville Jaguars" @@ "KC" :> "Kansas City Chiefs" @@
    "LV" :> "Las Vegas Raiders" @@ "LAC" :> "Los Angeles Chargers" @@ "LA" :> "Los Angeles Rams" @@
    "MIA" :> "Miami Dolphins" @@ "MIN" :> "Minnesota Vikings" @@ "NE" :> "New England Patriots" @@
    "NO" :> "New Orleans Saints" @@ "NYG" :> "New York Giants" @@ "NYJ" :> "New York Jets" @@
    "OAK" :> "Las Vegas Raiders" @@ "PHI" :> "Philadelphia Eagles" @@
    "PIT" :> "Pittsburgh Steelers" @@ "SF" :> "San Francisco 49ers" @@
    "SEA" :> "Seattle Seahawks" @@ "TB" :> "Tampa Bay Buccaneers" @@ "TEN" :> "Tennessee Titans" @@
    "WAS" :> "Washington Commanders"

-----------------------------------------------------------------------------
(* Series.str.strip(): strings are atoms here, so the padded raw names the *)
(* inputs use are listed with what strip() leaves of them.                 *)
StripTable == " BOS " :> "BOS" @@ " ATL " :> "ATL"

Strip(s) == IF s \in DOMAIN StripTable THEN StripTable[s] ELSE s

(* TLC evaluates a function constructor anew each time it is applied; the  *)
(* sequences below are built with `\o <<>>`, which leaves the same         *)
(* sequence as an explicit tuple, and records are extended with @@.        *)

(* Sort order of group keys (groupby sorts its keys; an outer merge sorts  *)
(* the join keys).  Python orders strings by code point; the filled key 0  *)
(* sorts before every string.                                              *)
MLBKeyOrder ==
    <<"0", "ARI", "ATL", "BAL", "BOS", "CHC", "CHW", "CIN", "CLE", "COL", "DET", "HOU", "KC",
      "LAA", "LAD", "MIA", "MIL", "MIN", "NYM", "NYY", "OAK", "PHI", "PIT", "SD", "SEA", "SF",
      "STL", "TB", "TEX", "TOR", "WSH">>

NFLKeyOrder ==
    <<"Arizona Cardinals", "Atlanta Falcons", "Baltimore Ravens", "Buffalo Bills",
      "Carolina Panthers", "Chicago Bears", "Cincinnati Bengals", "Cleveland Browns",
      "Dallas Cowboys", "Denver Broncos", "Detroit Lions", "Green Bay Packers",
      "Houston Texans", "Indianapolis Colts", "Jacksonville Jaguars", "Kansas City Chiefs",
      "Las Vegas Raiders", "Los Angeles Chargers", "Los Angeles Rams", "Miami Dolphins",
      "Minnesota Vikings", "New England Patriots", "New Orleans Saints", "New York Giants",
      "New York Jets", "Philadelphia Eagles", "Pittsburgh Steelers", "San Francisco 49ers",
      "Seattle Seahawks", "Tampa Bay Buccaneers", "Tennessee Titans", "Washington Commanders",
      "XFL Stars", "XYZ">>

KeyIndex(order, k) == CHOOSE i \in 1..Len(order) : order[i] = k

(* The distinct non-missing values of column `col`, in sorted order.       *)
GroupKeys(df, col, order) ==
    LET present == {df[i][col] : i \in 1..Len(df)} \ {NaNStr}
        at(k) == CHOOSE key \in present :
                    Cardinality({o \in present : KeyIndex(order, o) < KeyIndex(order, key)}) = k - 1
    IN  [k \in 1..Cardinality(present) |-> at(k)] \o <<>>

Col(df, col) == [i \in 1..Len(df) |-> df[i][col]] \o <<>>

RECURSIVE SumSeq(_)
SumSeq(s) == IF s = <<>> THEN 0 ELSE Head(s) + SumSeq(Tail(s))

RECURSIVE Flatten(_)
Flatten(ss) == IF ss = <<>> THEN <<>> ELSE Head(ss) \o Flatten(Tail(ss))

Reverse(s) == [i \in 1..Len(s) |-> s[Len(s) + 1 - i]] \o <<>>

RECURSIVE GCD(_, _)
GCD(a, b) == IF b = 0 THEN a ELSE GCD(b, a % b)

(* The fraction n/d in lowest terms (n >= 0, d >= 0); d = 0 is missing.    *)
Frac(n, d) == IF d = 0 THEN NaNF ELSE LET g == GCD(n, d) IN <<n \div g, d \div g>>

(* A ranking metric <<n, d, g>> is the number n / (d + g * 1e-6): g = 1    *)
(* where the code adds the guard 1e-6 to the denominator, else 0.  For     *)
(* a < b, n_a * (d_b + g_b * 1e-6) < n_b * (d_a + g_a * 1e-6); the         *)
(* integer part of the difference decides, then the 1e-6 part (the counts  *)
(* here are far below 10^6).                                               *)
MetricLess(a, b) ==
    LET whole == a[1] * b[2] - b[1] * a[2]
        guard == a[1] * b[3] - b[1] * a[3]
    IN  whole < 0 \/ (whole = 0 /\ guard < 0)

MetricEq(a, b) == a[1] * b[2] = b[1] * a[2] /\ a[1] * b[3] = b[1] * a[3]

(* DataFrame.sort_values('commence_time'): ascending; rows with equal      *)
(* times keep their order (numpy sorts the short arrays of these runs by   *)
(* insertion); a missing time sorts last.                                  *)
TimeBefore(a, b) == a # NaN /\ (b = NaN \/ a < b)

SortByTime(df) ==
    LET n == Len(df)
        pos(i) == 1 + Cardinality({j \in 1..n : TimeBefore(df[j].commence_time, df[i].commence_time)})
                    + Cardinality({j \in 1..(i - 1) : df[j].commence_time = df[i].commence_time})
    IN  [k \in 1..n |-> df[CHOOSE i \in 1..n : pos(i) = k]] \o <<>>

(* Series.rank(method='first'), as pandas' rank_1d computes it: a stable   *)
(* argsort of the values, reversed when descending; within a run of equal  *)
(* values the ranks follow the order of appearance in the data (for a      *)
(* descending rank that is the reverse of the position inside the run).    *)
ArgSort(vals) ==
    LET n == Len(vals)
        pos(i) == 1 + Cardinality({j \in 1..n : MetricLess(vals[j], vals[i])})
                    + Cardinality({j \in 1..(i - 1) : MetricEq(vals[j], vals[i])})
    IN  [k \in 1..n |-> CHOOSE i \in 1..n : pos(i) = k] \o <<>>

(* The ranks read off the sorted order alone: equal values of a descending *)
(* rank come out in reverse order of appearance.                           *)
RankFirstTiesReversed(vals, ascending) ==
    LET n   == Len(vals)
        idx == IF ascending THEN ArgSort(vals) ELSE Reverse(ArgSort(vals))
    IN  [i \in 1..n |-> CHOOSE p \in 1..n : idx[p] = i] \o <<>>

RankFirst(vals, ascending) ==
    LET n   == Len(vals)
        idx == IF ascending THEN ArgSort(vals) ELSE Reverse(ArgSort(vals))
        runStart(p) == CHOOSE s \in 1..p :
                          /\ \A q \in s..p : MetricEq(vals[idx[q]], vals[idx[p]])
                          /\ s > 1 => ~MetricEq(vals[idx[s - 1]], vals[idx[p]])
        runEnd(p)   == CHOOSE e \in p..n :
                          /\ \A q \in p..e : MetricEq(vals[idx[q]], vals[idx[p]])
                          /\ e < n => ~MetricEq(vals[idx[e + 1]], vals[idx[p]])
    IN  [i \in 1..n |->
            LET p == CHOOSE q \in 1..n : idx[q] = i
            IN  IF ascending THEN p ELSE runStart(p) + runEnd(p) - p] \o <<>>

(* pd.merge(left, right, how='left'): every left row in order, joined with *)
(* each matching right row in the right's order, or once with the right's  *)
(* columns missing.  `extra` lists the columns the right side adds and     *)
(* `miss` their missing values.                                            *)
ExtendMissing(l, miss) == miss @@ l

(* x.shift(1).rolling(W, min_periods=1).mean() on one group's values x.    *)
Shift1(x) == [i \in 1..Len(x) |-> IF i = 1 THEN NaN ELSE x[i - 1]] \o <<>>

RollingMeanMin1(x, W) ==
    [i \in 1..Len(x) |->
        LET window == SubSeq(x, IF i > W THEN i - W + 1 ELSE 1, i)
            valid  == SelectSeq(window, LAMBDA v : v # NaN)
        IN  IF Len(valid) >= 1 THEN Frac(SumSeq(valid), Len(valid)) ELSE NaNF]
    \o <<>>

(* The rolling mean without the shift: the window would end at the game    *)
(* itself.                                                                 *)
RollingNoShift(x, W) == RollingMeanMin1(x, W)

ShiftThenRolling(x, W) == LET shifted == Shift1(x) IN RollingMeanMin1(shifted, W)

(* df.groupby('team')[col].transform(f): f on each team's values in row    *)
(* order, each result written back to its row.                             *)
GroupPos(df, i) == Cardinality({j \in 1..i : df[j].team = df[i].team})

GroupVals(df, team, col) == Col(SelectSeq(df, LAMBDA r : r.team = team), col)

TransformRolling(df, col, W) ==
    LET teams  == {df[i].team : i \in 1..Len(df)}
        result == [t \in teams |-> LET x == GroupVals(df, t, col) IN ShiftThenRolling(x, W)]
                  @@ <<>>
    IN  [i \in 1..Len(df) |-> result[df[i].team][GroupPos(df, i)]] \o <<>>

(* df.groupby('team').last(): one row per team in sorted key order; each   *)
(* column holds the team's last value that is not missing.  `nulls` names  *)
(* the columns and the missing value of each.                              *)
(* The first value that is not missing, in place of the last.              *)
FirstValid(vals, null) ==
    LET ok == {i \in 1..Len(vals) : vals[i] # null}
    IN  IF ok = {} THEN null ELSE vals[CHOOSE i \in ok : \A j \in ok : i <= j]

LastValid(vals, null) ==
    LET ok == {i \in 1..Len(vals) : vals[i] # null}
    IN  IF ok = {} THEN null ELSE vals[CHOOSE i \in ok : \A j \in ok : j <= i]

GroupByLast(df, nulls, order) ==
    LET keys == GroupKeys(df, "team", order)
    IN  [k \in 1..Len(keys) |->
            LET rows == SelectSeq(df, LAMBDA r : r.team = keys[k])
            IN  [team |-> keys[k]]
                @@ [c \in DOMAIN nulls |-> LET vals == Col(rows, c) IN LastValid(vals, nulls[c])]]
        \o <<>>

(* pd.merge(home, away, on='team', how='outer'): one row per key of either *)
(* side, keys sorted; x holds the columns of the home side, y those of the *)
(* away side, every column of an absent side missing.                      *)
SideOf(latest, team, nulls) ==
    LET hit == SelectSeq(latest, LAMBDA r : r.team = team)
    IN  IF hit = <<>> THEN nulls ELSE [c \in DOMAIN nulls |-> hit[1][c]]

(* A left merge in place of the outer one: only the keys of the home side. *)
LeftMergeOnTeam(home, away, nullsHome, nullsAway, order) ==
    LET keys == GroupKeys(home, "team", order)
    IN  [k \in 1..Len(keys) |->
            [team |-> keys[k],
             x    |-> SideOf(home, keys[k], nullsHome),
             y    |-> SideOf(away, keys[k], nullsAway)]] \o <<>>

OuterMergeOnTeam(home, away, nullsHome, nullsAway, order) ==
    LET both == home \o away
        keys == GroupKeys(both, "team", order)
    IN  [k \in 1..Len(keys) |->
            [team |-> keys[k],
             x    |-> SideOf(home, keys[k], nullsHome),
             y    |-> SideOf(away, keys[k], nullsAway)]] \o <<>>

-----------------------------------------------------------------------------
(* precompute_nfl_features, section by section.                            *)

NFLWindow == 4

(* Twice the normaliser 16.5: adjusted values are kept in units of 1/33.   *)
NFLTwoC == 33

NFLOutputFilename == "latest_nfl_features.pkl"

(* 1. Data cleaning and initial prep (lines 134-158).                      *)
DropnaScores(df) == SelectSeq(df, LAMBDA r : r.home_score # NaN /\ r.away_score # NaN)

NFLMapName(raw) ==
    LET s == Strip(raw)
    IN  IF s \in DOMAIN nfl_team_name_map THEN nfl_team_name_map[s] ELSE raw

NFLCleanGames(tbl) ==
    LET kept == DropnaScores(tbl)
        d    == SortByTime(kept)
    IN  [i \in 1..Len(d) |->
            [d[i] EXCEPT !.home_team = NFLMapName(@), !.away_team = NFLMapName(@)]] \o <<>>

NFLHomeGames(df) ==
    [i \in 1..Len(df) |->
        [game_id |-> df[i].game_id, commence_time |-> df[i].commence_time,
         team |-> df[i].home_team, opponent |-> df[i].away_team,
         points_scored |-> df[i].home_score, points_allowed |-> df[i].away_score]] \o <<>>

NFLAwayGames(df) ==
    [i \in 1..Len(df) |->
        [game_id |-> df[i].game_id, commence_time |-> df[i].commence_time,
         team |-> df[i].away_team, opponent |-> df[i].home_team,
         points_scored |-> df[i].away_score, points_allowed |-> df[i].home_score]] \o <<>>

NFLTeamGameStats(df) == LET both == NFLHomeGames(df) \o NFLAwayGames(df) IN SortByTime(both)

(* 2. Team strength rankings (lines 162-163): the mean of a column per     *)
(* team, as <<sum, count>>, ranked.                                        *)
GroupMean(df, col) ==
    LET keys == GroupKeys(df, "team", NFLKeyOrder)
    IN  [k \in 1..Len(keys) |->
            LET rows == SelectSeq(df, LAMBDA r : r.team = keys[k])
            IN  <<SumSeq(Col(rows, col)), Len(rows), 0>>] \o <<>>

NFLOffensiveRank(tgs) ==
    LET keys  == GroupKeys(tgs, "team", NFLKeyOrder)
        means == GroupMean(tgs, "points_scored")
        ranks == RankFirst(means, FALSE)
    IN  [k \in 1..Len(keys) |-> [team |-> keys[k], offensive_rank |-> ranks[k]]] \o <<>>

NFLDefensiveRank(tgs) ==
    LET keys  == GroupKeys(tgs, "team", NFLKeyOrder)
        means == GroupMean(tgs, "points_allowed")
        ranks == RankFirst(means, TRUE)
    IN  [k \in 1..Len(keys) |-> [team |-> keys[k], defensive_rank |-> ranks[k]]] \o <<>>

(* 3. Map opponent strength to each game (lines 166-168): the inner merge  *)
(* of the two rank tables on team, renamed to opponent, left-merged onto   *)
(* the team-game rows on opponent.                                         *)
OpponentRanks(off, def) ==
    Flatten([i \in 1..Len(off) |->
        LET m == SelectSeq(def, LAMBDA r : r.team = off[i].team)
        IN  [j \in 1..Len(m) |->
                [opponent |-> off[i].team, offensive_rank |-> off[i].offensive_rank,
                 defensive_rank |-> m[j].defensive_rank]]])

NFLMapOpponentRanks(tgs, off, def) ==
    LET opp == OpponentRanks(off, def)
    IN  Flatten([i \in 1..Len(tgs) |->
            LET m == SelectSeq(opp, LAMBDA r : r.opponent = tgs[i].opponent)
            IN  IF m = <<>>
                THEN <<ExtendMissing(tgs[i], [offensive_rank |-> NaN, defensive_rank |-> NaN])>>
                ELSE [j \in 1..Len(m) |->
                        ExtendMissing(tgs[i], [offensive_rank |-> m[j].offensive_rank,
                                               defensive_rank |-> m[j].defensive_rank])]])

(* 4. Opponent-adjusted stats (lines 171-172):                             *)
(* raw * (1 + (16.5 - rank) / 16.5) = raw * (33 + (33 - 2 rank)) / 33.     *)
NFLAdjusted(raw, rank) ==
    IF raw = NaN \/ rank = NaN THEN NaN ELSE raw * (NFLTwoC + (NFLTwoC - 2 * rank))

NFLAdjustStats(tgs) ==
    [i \in 1..Len(tgs) |->
        ExtendMissing(tgs[i],
            [adj_points_scored  |-> NFLAdjusted(tgs[i].points_scored, tgs[i].defensive_rank),
             adj_points_allowed |-> NFLAdjusted(tgs[i].points_allowed, tgs[i].offensive_rank)])] \o <<>>

(* 5. Feature engineering (lines 177-186).  is_home_game compares the      *)
(* row's team with the home team of its game, looked up by game_id (ids    *)
(* are unique); True is 1 and False is 0.                                  *)
HomeTeamOf(df, gid) == (CHOOSE r \in {df[i] : i \in 1..Len(df)} : r.game_id = gid).home_team

NFLIsHomeGame(tgs, df) ==
    [i \in 1..Len(tgs) |->
        ExtendMissing(tgs[i],
            [is_home_game |-> IF tgs[i].team = HomeTeamOf(df, tgs[i].game_id) THEN 1 ELSE 0])] \o <<>>

NFLHomeRolling(hgs) ==
    LET s == TransformRolling(hgs, "adj_points_scored", NFLWindow)
        a == TransformRolling(hgs, "adj_points_allowed", NFLWindow)
    IN  [i \in 1..Len(hgs) |->
            ExtendMissing(hgs[i], [rolling_avg_adj_pts_scored_home  |-> s[i],
                                   rolling_avg_adj_pts_allowed_home |-> a[i]])] \o <<>>

NFLAwayRolling(ags) ==
    LET s == TransformRolling(ags, "adj_points_scored", NFLWindow)
        a == TransformRolling(ags, "adj_points_allowed", NFLWindow)
    IN  [i \in 1..Len(ags) |->
            ExtendMissing(ags[i], [rolling_avg_adj_pts_scored_away  |-> s[i],
                                   rolling_avg_adj_pts_allowed_away |-> a[i]])] \o <<>>

(* 6. Assemble latest features (lines 190-193).                            *)
NFLStatNulls ==
    [game_id |-> NaN, commence_time |-> NaN, opponent |-> NaNStr, points_scored |-> NaN,
     points_allowed |-> NaN, offensive_rank |-> NaN, defensive_rank |-> NaN,
     adj_points_scored |-> NaN, adj_points_allowed |-> NaN, is_home_game |-> NaN]

NFLHomeNulls ==
    ExtendMissing(NFLStatNulls, [rolling_avg_adj_pts_scored_home  |-> NaNF,
                                 rolling_avg_adj_pts_allowed_home |-> NaNF])

NFLAwayNulls ==
    ExtendMissing(NFLStatNulls, [rolling_avg_adj_pts_scored_away  |-> NaNF,
                                 rolling_avg_adj_pts_allowed_away |-> NaNF])

NFLAssemble(hgs, ags) ==
    LET latest_home == GroupByLast(hgs, NFLHomeNulls, NFLKeyOrder)
        latest_away == GroupByLast(ags, NFLAwayNulls, NFLKeyOrder)
    IN  OuterMergeOnTeam(latest_home, latest_away, NFLHomeNulls, NFLAwayNulls, NFLKeyOrder)

(* The whole run as a function of the nfl_games table.                     *)
NFLAllStatsOf(tbl) ==
    LET df     == NFLCleanGames(tbl)
        tgs    == NFLTeamGameStats(df)
        off    == NFLOffensiveRank(tgs)
        def    == NFLDefensiveRank(tgs)
        merged == NFLMapOpponentRanks(tgs, off, def)
        adj    == NFLAdjustStats(merged)
    IN  NFLIsHomeGame(adj, df)

NFLHomeStatsOf(tbl) ==
    LET all  == NFLAllStatsOf(tbl)
        home == SelectSeq(all, LAMBDA r : r.is_home_game = 1)
    IN  NFLHomeRolling(home)

NFLAwayStatsOf(tbl) ==
    LET all  == NFLAllStatsOf(tbl)
        away == SelectSeq(all, LAMBDA r : r.is_home_game # 1)
    IN  NFLAwayRolling(away)

NFLSnapshotOf(tbl) ==
    LET home == NFLHomeStatsOf(tbl)
        away == NFLAwayStatsOf(tbl)
    IN  NFLAssemble(home, away)

-----------------------------------------------------------------------------
(* precompute_mlb_features, section by section.                            *)

MLBWindow == 10

(* Twice the normaliser 15.5: adjusted values are kept in units of 1/31.   *)
MLBTwoC == 31

(* The other run's file name in place of this run's.                       *)
OtherRunFilename == "latest_nfl_features.pkl"

MLBOutputFilename == "latest_features.pkl"

(* Data cleaning (lines 49-56).                                            *)
MLBMapName(raw) ==
    LET s == Strip(raw)
    IN  IF s \in DOMAIN MLB_TEAM_NAME_MAP THEN MLB_TEAM_NAME_MAP[s] ELSE NaNStr

FillNum(v) == IF v = NaN THEN 0 ELSE v

FillKey(k) == IF k = NaNStr THEN FillZeroKey ELSE k

MLBCleanGames(tbl) ==
    LET mapped == [i \in 1..Len(tbl) |->
                    [tbl[i] EXCEPT !.home_team = MLBMapName(@), !.away_team = MLBMapName(@)]]
                  \o <<>>
    IN  SortByTime(mapped)

MLBCleanBatters(tbl) ==
    [i \in 1..Len(tbl) |->
        [game_id |-> tbl[i].game_id, team |-> FillKey(MLBMapName(tbl[i].team)),
         hits |-> FillNum(tbl[i].hits), home_runs |-> FillNum(tbl[i].home_runs),
         walks |-> FillNum(tbl[i].walks), strikeouts |-> FillNum(tbl[i].strikeouts),
         at_bats |-> FillNum(tbl[i].at_bats)]] \o <<>>

MLBCleanPitchers(tbl) ==
    [i \in 1..Len(tbl) |->
        [team |-> FillKey(MLBMapName(tbl[i].team)),
         earned_runs |-> FillNum(tbl[i].earned_runs),
         innings_pitched |-> FillNum(tbl[i].innings_pitched)]] \o <<>>

(* Team strength rankings (lines 59-65).  season_era is                    *)
(* total_er * 9 / (total_ip + 1e-6), held as <<total_er * 9, total_ip, 1>>; *)
(* production_score likewise.                                              *)
TeamPitchingAgg(pitchers) ==
    LET keys == GroupKeys(pitchers, "team", MLBKeyOrder)
        agg  == [k \in 1..Len(keys) |->
                    LET rows == SelectSeq(pitchers, LAMBDA r : r.team = keys[k])
                        er   == SumSeq(Col(rows, "earned_runs"))
                        ip   == SumSeq(Col(rows, "innings_pitched"))
                    IN  [team |-> keys[k], total_er |-> er, total_ip |-> ip,
                         season_era |-> <<er * 9, ip, 1>>]] \o <<>>
        era   == Col(agg, "season_era")
        ranks == RankFirst(era, TRUE)
    IN  [k \in 1..Len(keys) |-> ExtendMissing(agg[k], [pitching_rank |-> ranks[k]])] \o <<>>

TeamHittingAgg(batters) ==
    LET keys == GroupKeys(batters, "team", MLBKeyOrder)
        agg  == [k \in 1..Len(keys) |->
                    LET rows == SelectSeq(batters, LAMBDA r : r.team = keys[k])
                        h    == SumSeq(Col(rows, "hits"))
                        hr   == SumSeq(Col(rows, "home_runs"))
                        ab   == SumSeq(Col(rows, "at_bats"))
                    IN  [team |-> keys[k], total_hits |-> h, total_homers |-> hr,
                         total_at_bats |-> ab,
                         production_score |-> <<h + 2 * hr, ab, 1>>]] \o <<>>
        score == Col(agg, "production_score")
        ranks == RankFirst(score, FALSE)
    IN  [k \in 1..Len(keys) |-> ExtendMissing(agg[k], [hitting_rank |-> ranks[k]])] \o <<>>

(* Opponent-adjusted stats (lines 68-77).                                  *)
OpponentMap(games) ==
    [i \in 1..Len(games) |->
        [game_id |-> games[i].game_id, team |-> games[i].home_team, opponent |-> games[i].away_team]]
    \o
    [i \in 1..Len(games) |->
        [game_id |-> games[i].game_id, team |-> games[i].away_team, opponent |-> games[i].home_team]]

MergeOpponent(batters, games) ==
    LET om == OpponentMap(games)
    IN  Flatten([i \in 1..Len(batters) |->
            LET m == SelectSeq(om, LAMBDA r : r.game_id = batters[i].game_id
                                              /\ r.team = batters[i].team)
            IN  IF m = <<>>
                THEN <<ExtendMissing(batters[i], [opponent |-> NaNStr])>>
                ELSE [j \in 1..Len(m) |-> ExtendMissing(batters[i], [opponent |-> m[j].opponent])]])

(* The merge keyed on the record's own team in place of its opponent.      *)
MergeOwnPitchingRank(batters, pitching) ==
    Flatten([i \in 1..Len(batters) |->
        LET m == SelectSeq(pitching, LAMBDA r : r.team = batters[i].team)
        IN  IF m = <<>>
            THEN <<ExtendMissing(batters[i], [team_opponent |-> NaNStr, pitching_rank |-> NaN])>>
            ELSE [j \in 1..Len(m) |->
                    ExtendMissing(batters[i], [team_opponent |-> m[j].team,
                                               pitching_rank |-> m[j].pitching_rank])]])

MergePitchingRank(batters, pitching) ==
    Flatten([i \in 1..Len(batters) |->
        LET m == SelectSeq(pitching, LAMBDA r : r.team = batters[i].opponent)
        IN  IF m = <<>>
            THEN <<ExtendMissing(batters[i], [team_opponent |-> NaNStr, pitching_rank |-> NaN])>>
            ELSE [j \in 1..Len(m) |->
                    ExtendMissing(batters[i], [team_opponent |-> m[j].team,
                                               pitching_rank |-> m[j].pitching_rank])]])

(* raw * (1 + (15.5 - rank) / 15.5) = raw * (31 + (31 - 2 rank)) / 31.     *)
MLBAdjusted(raw, rank) ==
    IF raw = NaN \/ rank = NaN THEN NaN ELSE raw * (MLBTwoC + (MLBTwoC - 2 * rank))

MLBAdjustStats(batters, games, pitching) ==
    LET withOpp == MergeOpponent(batters, games)
        b       == MergePitchingRank(withOpp, pitching)
    IN  [i \in 1..Len(b) |->
            ExtendMissing(b[i],
                [adj_hits       |-> MLBAdjusted(b[i].hits, b[i].pitching_rank),
                 adj_home_runs  |-> MLBAdjusted(b[i].home_runs, b[i].pitching_rank),
                 adj_walks      |-> MLBAdjusted(b[i].walks, b[i].pitching_rank),
                 adj_strikeouts |-> MLBAdjusted(b[i].strikeouts, b[i].pitching_rank)])] \o <<>>

(* Feature engineering (lines 80-91).                                      *)
MergeGameInfo(batters, games) ==
    LET merged == Flatten([i \in 1..Len(batters) |->
        LET m == SelectSeq(games, LAMBDA r : r.game_id = batters[i].game_id)
        IN  IF m = <<>>
            THEN <<ExtendMissing(batters[i], [home_team |-> NaNStr, away_team |-> NaNStr,
                                              commence_time |-> NaN])>>
            ELSE [j \in 1..Len(m) |->
                    ExtendMissing(batters[i], [home_team |-> m[j].home_team,
                                               away_team |-> m[j].away_team,
                                               commence_time |-> m[j].commence_time])]])
    IN  SortByTime(merged)

(* A groupby sum skips missing values; the sum of none is 0.               *)
SumSkipNa(vals) == SumSeq([i \in 1..Len(vals) |-> IF vals[i] = NaN THEN 0 ELSE vals[i]])

KeyOf(r) == <<r.game_id, r.team, r.home_team, r.away_team>>

KeyLess(a, b) ==
    LET t(k) == KeyIndex(MLBKeyOrder, k)
    IN  \/ a[1] < b[1]
        \/ a[1] = b[1] /\ t(a[2]) < t(b[2])
        \/ a[1] = b[1] /\ a[2] = b[2] /\ t(a[3]) < t(b[3])
        \/ a[1] = b[1] /\ a[2] = b[2] /\ a[3] = b[3] /\ t(a[4]) < t(b[4])

(* groupby(['game_id', 'team', 'home_team', 'away_team']).agg(sum): rows   *)
(* with a missing key are left out; the groups come in sorted key order.   *)
BatterAggGroups(batters) ==
    LET rows == SelectSeq(batters, LAMBDA r : r.home_team # NaNStr /\ r.away_team # NaNStr
                                              /\ r.team # NaNStr)
        keys == {KeyOf(rows[i]) : i \in 1..Len(rows)}
        at(k) == CHOOSE key \in keys : Cardinality({o \in keys : KeyLess(o, key)}) = k - 1
    IN  [k \in 1..Cardinality(keys) |->
            LET key == at(k)
                g   == SelectSeq(rows, LAMBDA r : KeyOf(r) = key)
            IN  [game_id |-> key[1], team |-> key[2], home_team |-> key[3],
                 away_team |-> key[4],
                 total_adj_hits       |-> SumSkipNa(Col(g, "adj_hits")),
                 total_adj_homers     |-> SumSkipNa(Col(g, "adj_home_runs")),
                 total_adj_walks      |-> SumSkipNa(Col(g, "adj_walks")),
                 total_adj_strikeouts |-> SumSkipNa(Col(g, "adj_strikeouts"))]] \o <<>>

MergeCommenceTime(agg, games) ==
    LET merged == Flatten([i \in 1..Len(agg) |->
        LET m == SelectSeq(games, LAMBDA r : r.game_id = agg[i].game_id)
        IN  IF m = <<>>
            THEN <<ExtendMissing(agg[i], [commence_time |-> NaN])>>
            ELSE [j \in 1..Len(m) |-> ExtendMissing(agg[i], [commence_time |-> m[j].commence_time])]])
    IN  SortByTime(merged)

WithLocation(agg) ==
    [i \in 1..Len(agg) |->
        ExtendMissing(agg[i], [location |-> IF agg[i].team = agg[i].home_team THEN "Home" ELSE "Away"])] \o <<>>

MLBBatterAgg(batters, games) ==
    LET merged == MergeGameInfo(batters, games)
        groups == BatterAggGroups(merged)
        timed  == MergeCommenceTime(groups, games)
    IN  WithLocation(timed)

(* Rolling features (lines 93-101).                                        *)
MLBHomeRolling(hba) ==
    LET h  == TransformRolling(hba, "total_adj_hits", MLBWindow)
        hr == TransformRolling(hba, "total_adj_homers", MLBWindow)
        w  == TransformRolling(hba, "total_adj_walks", MLBWindow)
        so == TransformRolling(hba, "total_adj_strikeouts", MLBWindow)
    IN  [i \in 1..Len(hba) |->
            ExtendMissing(hba[i], [rolling_avg_adj_hits_home_perf       |-> h[i],
                                   rolling_avg_adj_homers_home_perf     |-> hr[i],
                                   rolling_avg_adj_walks_home_perf      |-> w[i],
                                   rolling_avg_adj_strikeouts_home_perf |-> so[i]])] \o <<>>

MLBAwayRolling(aba) ==
    LET h  == TransformRolling(aba, "total_adj_hits", MLBWindow)
        hr == TransformRolling(aba, "total_adj_homers", MLBWindow)
        w  == TransformRolling(aba, "total_adj_walks", MLBWindow)
        so == TransformRolling(aba, "total_adj_strikeouts", MLBWindow)
    IN  [i \in 1..Len(aba) |->
            ExtendMissing(aba[i], [rolling_avg_adj_hits_away_perf       |-> h[i],
                                   rolling_avg_adj_homers_away_perf     |-> hr[i],
                                   rolling_avg_adj_walks_away_perf      |-> w[i],
                                   rolling_avg_adj_strikeouts_away_perf |-> so[i]])] \o <<>>

(* Assemble latest features (lines 104-107).                               *)
MLBAggNulls ==
    [game_id |-> NaN, home_team |-> NaNStr, away_team |-> NaNStr, total_adj_hits |-> NaN,
     total_adj_homers |-> NaN, total_adj_walks |-> NaN, total_adj_strikeouts |-> NaN,
     commence_time |-> NaN, location |-> NaNStr]

MLBHomeNulls ==
    ExtendMissing(MLBAggNulls, [rolling_avg_adj_hits_home_perf       |-> NaNF,
                                rolling_avg_adj_homers_home_perf     |-> NaNF,
                                rolling_avg_adj_walks_home_perf      |-> NaNF,
                                rolling_avg_adj_strikeouts_home_perf |-> NaNF])

MLBAwayNulls ==
    ExtendMissing(MLBAggNulls, [rolling_avg_adj_hits_away_perf       |-> NaNF,
                                rolling_avg_adj_homers_away_perf     |-> NaNF,
                                rolling_avg_adj_walks_away_perf      |-> NaNF,
                                rolling_avg_adj_strikeouts_away_perf |-> NaNF])

MLBAssemble(hba, aba) ==
    LET latest_home == GroupByLast(hba, MLBHomeNulls, MLBKeyOrder)
        latest_away == GroupByLast(aba, MLBAwayNulls, MLBKeyOrder)
    IN  OuterMergeOnTeam(latest_home, latest_away, MLBHomeNulls, MLBAwayNulls, MLBKeyOrder)

(* The whole run as a function of the three tables.                        *)
MLBBatterAggOf(games, batters, pitchers) ==
    LET g        == MLBCleanGames(games)
        b        == MLBCleanBatters(batters)
        p        == MLBCleanPitchers(pitchers)
        pitching == TeamPitchingAgg(p)
        adjusted == MLBAdjustStats(b, g, pitching)
    IN  MLBBatterAgg(adjusted, g)

MLBSnapshotOf(games, batters, pitchers) ==
    LET agg  == MLBBatterAggOf(games, batters, pitchers)
        home == SelectSeq(agg, LAMBDA r : r.location = "Home")
        away == SelectSeq(agg, LAMBDA r : r.location = "Away")
        hba  == MLBHomeRolling(home)
        aba  == MLBAwayRolling(away)
    IN  MLBAssemble(hba, aba)

-----------------------------------------------------------------------------
(* The runs as state machines.  Every statement inside a run's try block   *)
(* can raise; the except clause (lines 118-119, 204-205) prints the error  *)
(* and the function returns None.  The locals of a run vanish when it      *)
(* returns.                                                                *)

AllTables == {"games", "batter_stats", "pitcher_stats", "nfl_games"}

NoLocalsMLB ==
    /\ games_df' = <<>> /\ batter_stats_df' = <<>> /\ pitcher_stats_df' = <<>>
    /\ team_pitching_agg' = <<>> /\ team_hitting_agg' = <<>> /\ batter_agg' = <<>>
    /\ home_batter_agg' = <<>> /\ away_batter_agg' = <<>> /\ latest_features' = <<>>

NoLocalsNFL ==
    /\ nfl_games_df' = <<>> /\ team_game_stats' = <<>> /\ offensive_rank_df' = <<>>
    /\ defensive_rank_df' = <<>> /\ home_games_stats' = <<>> /\ away_games_stats' = <<>>
    /\ latest_nfl_features' = <<>>

(* What precompute_mlb_features hands to its caller after its except       *)
(* clause ran, and after its last statement: in both cases it falls off    *)
(* its end.                                                                *)
MLBReturnAfterExcept == "None"

MLBReturnAfterSuccess == "None"

NFLReturnAfterExcept == "None"

NFLReturnAfterSuccess == "None"

MLBExcept ==
    /\ pc' = "mlb_returned"
    /\ returned' = [returned EXCEPT !.mlb = MLBReturnAfterExcept]
    /\ printed' = [printed EXCEPT !.mlb = "error"]
    /\ NoLocalsMLB
    /\ UNCHANGED <<db_vars, files, nfl_locals>>

NFLExcept ==
    /\ pc' = "nfl_returned"
    /\ returned' = [returned EXCEPT !.nfl = NFLReturnAfterExcept]
    /\ printed' = [printed EXCEPT !.nfl = "error"]
    /\ NoLocalsNFL
    /\ UNCHANGED <<db_vars, files, mlb_locals>>

(* lines 43-46 *)
MLBLoad ==
    /\ pc = "mlb_load"
    /\ \/ /\ {"games", "batter_stats", "pitcher_stats"} \subseteq db_present
          /\ games_df' = tbl_games
          /\ batter_stats_df' = tbl_batter_stats
          /\ pitcher_stats_df' = tbl_pitcher_stats
          /\ pc' = "mlb_clean"
          /\ UNCHANGED <<db_vars, files, returned, printed, nfl_locals, team_pitching_agg,
                         team_hitting_agg, batter_agg, home_batter_agg, away_batter_agg,
                         latest_features>>
       \/ MLBExcept

(* lines 49-56 *)
MLBClean ==
    /\ pc = "mlb_clean"
    /\ \/ /\ games_df' = MLBCleanGames(games_df)
          /\ batter_stats_df' = MLBCleanBatters(batter_stats_df)
          /\ pitcher_stats_df' = MLBCleanPitchers(pitcher_stats_df)
          /\ pc' = "mlb_rank"
          /\ UNCHANGED <<db_vars, files, returned, printed, nfl_locals, team_pitching_agg,
                         team_hitting_agg, batter_agg, home_batter_agg, away_batter_agg,
                         latest_features>>
       \/ MLBExcept

(* lines 59-65 *)
MLBRank ==
    /\ pc = "mlb_rank"
    /\ \/ /\ team_pitching_agg' = TeamPitchingAgg(pitcher_stats_df)
          /\ team_hitting_agg' = TeamHittingAgg(batter_stats_df)
          /\ pc' = "mlb_adjust"
          /\ UNCHANGED <<db_vars, files, returned, printed, nfl_locals, games_df, batter_stats_df,
                         pitcher_stats_df, batter_agg, home_batter_agg, away_batter_agg,
                         latest_features>>
       \/ MLBExcept

(* lines 68-77 *)
MLBAdjust ==
    /\ pc = "mlb_adjust"
    /\ \/ /\ batter_stats_df' = MLBAdjustStats(batter_stats_df, games_df, team_pitching_agg)
          /\ pc' = "mlb_features"
          /\ UNCHANGED <<db_vars, files, returned, printed, nfl_locals, games_df, pitcher_stats_df,
                         team_pitching_agg, team_hitting_agg, batter_agg, home_batter_agg,
                         away_batter_agg, latest_features>>
       \/ MLBExcept

(* lines 80-91 *)
MLBFeatures ==
    /\ pc = "mlb_features"
    /\ \/ /\ batter_stats_df' = MergeGameInfo(batter_stats_df, games_df)
          /\ batter_agg' = MLBBatterAgg(batter_stats_df, games_df)
          /\ home_batter_agg' = SelectSeq(batter_agg', LAMBDA r : r.location = "Home")
          /\ away_batter_agg' = SelectSeq(batter_agg', LAMBDA r : r.location = "Away")
          /\ pc' = "mlb_rolling"
          /\ UNCHANGED <<db_vars, files, returned, printed, nfl_locals, games_df, pitcher_stats_df,
                         team_pitching_agg, team_hitting_agg, latest_features>>
       \/ MLBExcept

(* lines 93-101 *)
MLBRolling ==
    /\ pc = "mlb_rolling"
    /\ \/ /\ home_batter_agg' = MLBHomeRolling(home_batter_agg)
          /\ away_batter_agg' = MLBAwayRolling(away_batter_agg)
          /\ pc' = "mlb_assemble"
          /\ UNCHANGED <<db_vars, files, returned, printed, nfl_locals, games_df, batter_stats_df,
                         pitcher_stats_df, team_pitching_agg, team_hitting_agg, batter_agg,
                         latest_features>>
       \/ MLBExcept

(* lines 104-107 *)
MLBAssembleLatest ==
    /\ pc = "mlb_assemble"
    /\ \/ /\ latest_features' = MLBAssemble(home_batter_agg, away_batter_agg)
          /\ pc' = "mlb_save"
          /\ UNCHANGED <<db_vars, files, returned, printed, nfl_locals, games_df, batter_stats_df,
                         pitcher_stats_df, team_pitching_agg, team_hitting_agg, batter_agg,
                         home_batter_agg, away_batter_agg>>
       \/ MLBExcept

(* lines 110-116: open(..., 'wb') empties the file before pickle.dump      *)
(* writes it; a failure of the dump leaves the file truncated.             *)
MLBSave ==
    /\ pc = "mlb_save"
    /\ \/ /\ files' = [files EXCEPT ![MLBOutputFilename] =
                            [state |-> "written", data |-> latest_features]]
          /\ pc' = "mlb_returned"
          /\ returned' = [returned EXCEPT !.mlb = MLBReturnAfterSuccess]
          /\ printed' = [printed EXCEPT !.mlb = "success"]
          /\ NoLocalsMLB
          /\ UNCHANGED <<db_vars, nfl_locals>>
       \/ /\ files' = [files EXCEPT ![MLBOutputFilename] =
                            [state |-> "truncated", data |-> <<>>]]
          /\ pc' = "mlb_returned"
          /\ returned' = [returned EXCEPT !.mlb = MLBReturnAfterExcept]
          /\ printed' = [printed EXCEPT !.mlb = "error"]
          /\ NoLocalsMLB
          /\ UNCHANGED <<db_vars, nfl_locals>>
       \/ MLBExcept

(* line 129 *)
NFLLoad ==
    /\ pc = "nfl_load"
    /\ \/ /\ "nfl_games" \in db_present
          /\ nfl_games_df' = tbl_nfl_games
          /\ pc' = "nfl_clean"
          /\ UNCHANGED <<db_vars, files, returned, printed, mlb_locals, team_game_stats,
                         offensive_rank_df, defensive_rank_df, home_games_stats,
                         away_games_stats, latest_nfl_features>>
       \/ NFLExcept

(* lines 134-158 *)
NFLClean ==
    /\ pc = "nfl_clean"
    /\ \/ /\ nfl_games_df' = NFLCleanGames(nfl_games_df)
          /\ team_game_stats' = NFLTeamGameStats(nfl_games_df')
          /\ pc' = "nfl_rank"
          /\ UNCHANGED <<db_vars, files, returned, printed, mlb_locals, offensive_rank_df,
                         defensive_rank_df, home_games_stats, away_games_stats,
                         latest_nfl_features>>
       \/ NFLExcept

(* lines 162-163 *)
NFLRank ==
    /\ pc = "nfl_rank"
    /\ \/ /\ offensive_rank_df' = NFLOffensiveRank(team_game_stats)
          /\ defensive_rank_df' = NFLDefensiveRank(team_game_stats)
          /\ pc' = "nfl_map_opponent"
          /\ UNCHANGED <<db_vars, files, returned, printed, mlb_locals, nfl_games_df, team_game_stats,
                         home_games_stats, away_games_stats, latest_nfl_features>>
       \/ NFLExcept

(* lines 166-172 *)
NFLAdjust ==
    /\ pc = "nfl_map_opponent"
    /\ \/ /\ team_game_stats' =
                LET merged == NFLMapOpponentRanks(team_game_stats, offensive_rank_df,
                                                  defensive_rank_df)
                IN  NFLAdjustStats(merged)
          /\ pc' = "nfl_split"
          /\ UNCHANGED <<db_vars, files, returned, printed, mlb_locals, nfl_games_df,
                         offensive_rank_df, defensive_rank_df, home_games_stats,
                         away_games_stats, latest_nfl_features>>
       \/ NFLExcept

(* lines 177-180 *)
NFLSplit ==
    /\ pc = "nfl_split"
    /\ \/ /\ team_game_stats' = NFLIsHomeGame(team_game_stats, nfl_games_df)
          /\ home_games_stats' = SelectSeq(team_game_stats', LAMBDA r : r.is_home_game = 1)
          /\ away_games_stats' = SelectSeq(team_game_stats', LAMBDA r : r.is_home_game # 1)
          /\ pc' = "nfl_rolling"
          /\ UNCHANGED <<db_vars, files, returned, printed, mlb_locals, nfl_games_df,
                         offensive_rank_df, defensive_rank_df, latest_nfl_features>>
       \/ NFLExcept

(* lines 182-186 *)
NFLRolling ==
    /\ pc = "nfl_rolling"
    /\ \/ /\ home_games_stats' = NFLHomeRolling(home_games_stats)
          /\ away_games_stats' = NFLAwayRolling(away_games_stats)
          /\ pc' = "nfl_assemble"
          /\ UNCHANGED <<db_vars, files, returned, printed, mlb_locals, nfl_games_df, team_game_stats,
                         offensive_rank_df, defensive_rank_df, latest_nfl_features>>
       \/ NFLExcept

(* lines 190-193 *)
NFLAssembleLatest ==
    /\ pc = "nfl_assemble"
    /\ \/ /\ latest_nfl_features' = NFLAssemble(home_games_stats, away_games_stats)
          /\ pc' = "nfl_save"
          /\ UNCHANGED <<db_vars, files, returned, printed, mlb_locals, nfl_games_df, team_game_stats,
                         offensive_rank_df, defensive_rank_df, home_games_stats,
                         away_games_stats>>
       \/ NFLExcept

(* lines 196-202 *)
NFLSave ==
    /\ pc = "nfl_save"
    /\ \/ /\ files' = [files EXCEPT ![NFLOutputFilename] =
                            [state |-> "written", data |-> latest_nfl_features]]
          /\ pc' = "nfl_returned"
          /\ returned' = [returned EXCEPT !.nfl = NFLReturnAfterSuccess]
          /\ printed' = [printed EXCEPT !.nfl = "success"]
          /\ NoLocalsNFL
          /\ UNCHANGED <<db_vars, mlb_locals>>
       \/ /\ files' = [files EXCEPT ![NFLOutputFilename] =
                            [state |-> "truncated", data |-> <<>>]]
          /\ pc' = "nfl_returned"
          /\ returned' = [returned EXCEPT !.nfl = NFLReturnAfterExcept]
          /\ printed' = [printed EXCEPT !.nfl = "error"]
          /\ NoLocalsNFL
          /\ UNCHANGED <<db_vars, mlb_locals>>
       \/ NFLExcept

(* main (lines 207-217).  A failure of create_engine reaches main's except *)
(* clause, which prints it and ends main; the runs catch their own         *)
(* exceptions and always return to main.                                   *)
MainCheckUrl ==
    /\ pc = "main"
    /\ pc' = IF db_url = "missing" THEN "exit" ELSE "create_engine"
    /\ UNCHANGED <<db_vars, files, returned, printed, mlb_locals, nfl_locals>>

MainCreateEngine ==
    /\ pc = "create_engine"
    /\ \/ pc' = "mlb_load"
       \/ pc' = "exit"
    /\ UNCHANGED <<db_vars, files, returned, printed, mlb_locals, nfl_locals>>

MainAfterMLB ==
    /\ pc = "mlb_returned"
    /\ pc' = "nfl_load"
    /\ UNCHANGED <<db_vars, files, returned, printed, mlb_locals, nfl_locals>>

MainAfterNFL ==
    /\ pc = "nfl_returned"
    /\ pc' = "exit"
    /\ UNCHANGED <<db_vars, files, returned, printed, mlb_locals, nfl_locals>>

MLBRun == MLBLoad \/ MLBClean \/ MLBRank \/ MLBAdjust \/ MLBFeatures \/ MLBRolling
          \/ MLBAssembleLatest \/ MLBSave

NFLRun == NFLLoad \/ NFLClean \/ NFLRank \/ NFLAdjust \/ NFLSplit \/ NFLRolling
          \/ NFLAssembleLatest \/ NFLSave

Next == MainCheckUrl \/ MainCreateEngine \/ MLBRun \/ MainAfterMLB \/ NFLRun \/ MainAfterNFL

-----------------------------------------------------------------------------
(* Inputs.  A table is a sequence of rows; game ids are unique and a table *)
(* need not arrive sorted by time.  Raw team names: "KCR" and " BOS "      *)
(* resolve (to KC and, once stripped, BOS), "Sox" and "K.C." do not;       *)
(* "ARI" and " ATL " resolve, "XYZ" does not.                              *)

MainMaxGames == 1

PipeMaxGames == 2

MLBMatchups == {<<"KCR", " BOS ">>, <<" BOS ", "KCR">>, <<"KCR", "Sox">>}

NFLMatchups == {<<"ARI", " ATL ">>, <<" ATL ", "ARI">>, <<"ARI", "XYZ">>}

MLBGameOptions(times, homeScores) == MLBMatchups \X times \X homeScores

MLBGamesTables(n, times, homeScores) ==
    UNION {{[i \in 1..k |->
                [game_id |-> i, home_team |-> f[i][1][1], away_team |-> f[i][1][2],
                 commence_time |-> f[i][2], home_score |-> f[i][3], away_score |-> 3]]
            : f \in [1..k -> MLBGameOptions(times, homeScores)]} : k \in 0..n}

(* The batter rows of a game: two batters of the home team and one of the  *)
(* away team, whose team name is the game's or, with `alias`, a spelling   *)
(* the name table does not know.                                           *)
BattersOfGame(g, alias) ==
    <<[game_id |-> g.game_id, team |-> g.home_team, hits |-> g.game_id, home_runs |-> 0,
       walks |-> NaN, strikeouts |-> 1, at_bats |-> 4],
      [game_id |-> g.game_id, team |-> g.home_team, hits |-> 2, home_runs |-> 1,
       walks |-> 1, strikeouts |-> 0, at_bats |-> 3],
      [game_id |-> g.game_id, team |-> IF alias THEN "K.C." ELSE g.away_team, hits |-> 1,
       home_runs |-> 1, walks |-> 0, strikeouts |-> 2, at_bats |-> 4]>>

BattersOf(games, alias) == Flatten([i \in 1..Len(games) |-> BattersOfGame(games[i], alias)])

PitcherRow(t, er) == [team |-> t, earned_runs |-> er, innings_pitched |-> 9]

PitcherTables ==
    {<<>>, <<PitcherRow("KCR", 1), PitcherRow("Sox", 2)>>}
    \cup {<<PitcherRow("KCR", a), PitcherRow(" BOS ", b)>> : a \in {1, 2}, b \in {1, 2}}

NFLScorePairs == {<<7, 3>>, <<3, 7>>, <<NaN, 3>>, <<7, NaN>>}

NFLGamesTables(n, times, scores) ==
    UNION {{[i \in 1..k |->
                [game_id |-> i, commence_time |-> f[i][2], home_team |-> f[i][1][1],
                 away_team |-> f[i][1][2], home_score |-> f[i][3][1],
                 away_score |-> f[i][3][2]]]
            : f \in [1..k -> NFLMatchups \X times \X scores]} : k \in 0..n}

PreviousFiles ==
    [f \in {MLBOutputFilename, NFLOutputFilename} |-> [state |-> "previous", data |-> <<>>]]

InitLocals ==
    /\ games_df = <<>> /\ batter_stats_df = <<>> /\ pitcher_stats_df = <<>>
    /\ team_pitching_agg = <<>> /\ team_hitting_agg = <<>> /\ batter_agg = <<>>
    /\ home_batter_agg = <<>> /\ away_batter_agg = <<>> /\ latest_features = <<>>
    /\ nfl_games_df = <<>> /\ team_game_stats = <<>> /\ offensive_rank_df = <<>>
    /\ defensive_rank_df = <<>> /\ home_games_stats = <<>> /\ away_games_stats = <<>>
    /\ latest_nfl_features = <<>>

InitOutputs ==
    /\ files = PreviousFiles
    /\ returned = [mlb |-> "pending", nfl |-> "pending"]
    /\ printed = [mlb |-> "nothing", nfl |-> "nothing"]

FixedMLBGames == <<[game_id |-> 1, home_team |-> "KCR", away_team |-> " BOS ",
                    commence_time |-> 1, home_score |-> 5, away_score |-> 3]>>

FixedNFLGames == <<[game_id |-> 1, commence_time |-> 1, home_team |-> "ARI",
                    away_team |-> " ATL ", home_score |-> 7, away_score |-> 3]>>

(* main, from its first line: any one table may be missing from the        *)
(* database; one sport's tables vary while the other's are fixed.          *)
Init ==
    /\ pc = "main"
    /\ db_url \in {"set", "missing"}
    /\ db_present \in {AllTables} \cup {AllTables \ {t} : t \in AllTables}
    /\ \/ /\ tbl_games \in MLBGamesTables(MainMaxGames, {1}, {NaN, 5})
          /\ tbl_nfl_games = FixedNFLGames
       \/ /\ tbl_games = FixedMLBGames
          /\ tbl_nfl_games \in NFLGamesTables(MainMaxGames, {1}, {<<7, 3>>, <<NaN, 3>>})
    /\ tbl_batter_stats = BattersOf(tbl_games, FALSE)
    /\ tbl_pitcher_stats = <<PitcherRow("KCR", 1), PitcherRow(" BOS ", 2)>>
    /\ InitLocals
    /\ InitOutputs

Spec == Init /\ [][Next]_vars

(* One run, from its first line, with every table present.                 *)
InitPipe ==
    /\ db_url = "set"
    /\ db_present = AllTables
    /\ \/ /\ pc = "mlb_load"
          /\ tbl_games \in MLBGamesTables(PipeMaxGames, {1, 2}, {NaN, 5})
          /\ \E alias \in BOOLEAN : tbl_batter_stats = BattersOf(tbl_games, alias)
          /\ tbl_pitcher_stats \in PitcherTables
          /\ tbl_nfl_games = <<>>
       \/ /\ pc = "nfl_load"
          /\ tbl_games = <<>> /\ tbl_batter_stats = <<>> /\ tbl_pitcher_stats = <<>>
          /\ tbl_nfl_games \in NFLGamesTables(PipeMaxGames, {1, 2}, NFLScorePairs)
    /\ InitLocals
    /\ InitOutputs

NextPipe == MLBRun \/ NFLRun

SpecPipe == InitPipe /\ [][NextPipe]_vars

-----------------------------------------------------------------------------
(* The ranking section alone, from the state the cleaning section leaves:  *)
(* one stat table at a time varies over every table of up to RankMaxRows   *)
(* rows.                                                                   *)
RankMaxRows == 3

RankRawTeams == {"KCR", " BOS ", "Sox"}

PitcherTablesUpTo(n) ==
    UNION {[1..k -> {[team |-> t, earned_runs |-> er, innings_pitched |-> ip]
                        : t \in RankRawTeams, er \in {1, 2}, ip \in {0, 9}}] : k \in 0..n}

BatterTablesUpTo(n) ==
    UNION {[1..k -> {[game_id |-> 1, team |-> t, hits |-> h, home_runs |-> hr, walks |-> 0,
                      strikeouts |-> NaN, at_bats |-> 4]
                        : t \in RankRawTeams, h \in {0, 2}, hr \in {0, 1}}] : k \in 0..n}

InitRank ==
    /\ db_url = "set"
    /\ db_present = AllTables
    /\ \/ /\ pc = "mlb_rank"
          /\ tbl_games = <<>> /\ tbl_nfl_games = <<>>
          /\ \/ tbl_pitcher_stats \in PitcherTablesUpTo(RankMaxRows) /\ tbl_batter_stats = <<>>
             \/ tbl_batter_stats \in BatterTablesUpTo(RankMaxRows) /\ tbl_pitcher_stats = <<>>
          /\ games_df = MLBCleanGames(tbl_games)
          /\ batter_stats_df = MLBCleanBatters(tbl_batter_stats)
          /\ pitcher_stats_df = MLBCleanPitchers(tbl_pitcher_stats)
          /\ nfl_games_df = <<>> /\ team_game_stats = <<>>
       \/ /\ pc = "nfl_rank"
          /\ tbl_games = <<>> /\ tbl_batter_stats = <<>> /\ tbl_pitcher_stats = <<>>
          /\ tbl_nfl_games \in NFLGamesTables(RankMaxRows, {1}, {<<7, 3>>, <<3, 7>>, <<3, 3>>})
          /\ nfl_games_df = NFLCleanGames(tbl_nfl_games)
          /\ team_game_stats = NFLTeamGameStats(nfl_games_df)
          /\ games_df = <<>> /\ batter_stats_df = <<>> /\ pitcher_stats_df = <<>>
    /\ team_pitching_agg = <<>> /\ team_hitting_agg = <<>> /\ batter_agg = <<>>
    /\ home_batter_agg = <<>> /\ away_batter_agg = <<>> /\ latest_features = <<>>
    /\ offensive_rank_df = <<>> /\ defensive_rank_df = <<>> /\ home_games_stats = <<>>
    /\ away_games_stats = <<>> /\ latest_nfl_features = <<>>
    /\ InitOutputs

NextRank == MLBRank \/ NFLRank

SpecRank == InitRank /\ [][NextRank]_vars

(* The opponent-adjustment section alone, from the state the ranking       *)
(* section leaves.                                                         *)
AdjustMaxGames == 2

InitAdjust ==
    /\ db_url = "set"
    /\ db_present = AllTables
    /\ \/ /\ pc = "mlb_adjust"
          /\ tbl_games \in MLBGamesTables(AdjustMaxGames, {1}, {5})
          /\ \E alias \in BOOLEAN : tbl_batter_stats = BattersOf(tbl_games, alias)
          /\ tbl_pitcher_stats \in PitcherTables
          /\ tbl_nfl_games = <<>>
          /\ games_df = MLBCleanGames(tbl_games)
          /\ batter_stats_df = MLBCleanBatters(tbl_batter_stats)
          /\ pitcher_stats_df = MLBCleanPitchers(tbl_pitcher_stats)
          /\ team_pitching_agg = TeamPitchingAgg(pitcher_stats_df)
          /\ team_hitting_agg = TeamHittingAgg(batter_stats_df)
          /\ nfl_games_df = <<>> /\ team_game_stats = <<>>
          /\ offensive_rank_df = <<>> /\ defensive_rank_df = <<>>
       \/ /\ pc = "nfl_map_opponent"
          /\ tbl_games = <<>> /\ tbl_batter_stats = <<>> /\ tbl_pitcher_stats = <<>>
          /\ tbl_nfl_games \in NFLGamesTables(AdjustMaxGames, {1}, NFLScorePairs)
          /\ nfl_games_df = NFLCleanGames(tbl_nfl_games)
          /\ team_game_stats = NFLTeamGameStats(nfl_games_df)
          /\ offensive_rank_df = NFLOffensiveRank(team_game_stats)
          /\ defensive_rank_df = NFLDefensiveRank(team_game_stats)
          /\ games_df = <<>> /\ batter_stats_df = <<>> /\ pitcher_stats_df = <<>>
          /\ team_pitching_agg = <<>> /\ team_hitting_agg = <<>>
    /\ batter_agg = <<>> /\ home_batter_agg = <<>> /\ away_batter_agg = <<>>
    /\ latest_features = <<>> /\ home_games_stats = <<>> /\ away_games_stats = <<>>
    /\ latest_nfl_features = <<>>
    /\ InitOutputs

NextAdjust == MLBAdjust \/ NFLAdjust

SpecAdjust == InitAdjust /\ [][NextAdjust]_vars

(* The rolling and assembly sections alone, from per-game aggregates in    *)
(* ascending time order as the feature-engineering section leaves them.    *)
(* Game i is played at time i.  In a long series every game is the same    *)
(* team's, at home or away, and at most two of the games have a non-zero   *)
(* value (a rolling mean is linear in the observations); in a short series *)
(* the team and the value of each row vary.                                *)
RollMaxLen == 12

NFLRollMaxLen == 6

RollShortLen == 3

Spikes(n, a, b, v) == [i \in 1..n |-> IF i \in {a, b} THEN v ELSE 0]

OtherMLB(t) == IF t = "KC" THEN "BOS" ELSE "KC"

AggRow(i, t, loc, v) ==
    [game_id |-> i, team |-> t,
     home_team |-> IF loc = "Home" THEN t ELSE OtherMLB(t),
     away_team |-> IF loc = "Home" THEN OtherMLB(t) ELSE t,
     total_adj_hits |-> v, total_adj_homers |-> 2 * i, total_adj_walks |-> 0,
     total_adj_strikeouts |-> v + 58, commence_time |-> i, location |-> loc]

OtherNFL(t) == IF t = "Arizona Cardinals" THEN "Atlanta Falcons" ELSE "Arizona Cardinals"

(* A team-game row whose opponent ranks 1st in defence and 2nd in offence. *)
StatRow(i, t, home, scored) ==
    [game_id |-> i, commence_time |-> i, team |-> t, opponent |-> OtherNFL(t),
     points_scored |-> scored, points_allowed |-> i, offensive_rank |-> 2,
     defensive_rank |-> 1, adj_points_scored |-> NFLAdjusted(scored, 1),
     adj_points_allowed |-> NFLAdjusted(i, 2), is_home_game |-> home]

InitRoll ==
    /\ db_url = "set"
    /\ db_present = AllTables
    /\ tbl_games = <<>> /\ tbl_batter_stats = <<>> /\ tbl_pitcher_stats = <<>>
    /\ tbl_nfl_games = <<>>
    /\ games_df = <<>> /\ batter_stats_df = <<>> /\ pitcher_stats_df = <<>>
    /\ team_pitching_agg = <<>> /\ team_hitting_agg = <<>> /\ batter_agg = <<>>
    /\ latest_features = <<>>
    /\ nfl_games_df = <<>> /\ team_game_stats = <<>> /\ offensive_rank_df = <<>>
    /\ defensive_rank_df = <<>> /\ latest_nfl_features = <<>>
    /\ \/ /\ pc = "mlb_rolling"
          /\ home_games_stats = <<>> /\ away_games_stats = <<>>
          /\ \/ \E n \in 0..RollMaxLen : \E a \in 0..n : \E b \in a..n :
                LET f == Spikes(n, a, b, 60) IN
                  \/ /\ home_batter_agg = [i \in 1..n |-> AggRow(i, "KC", "Home", f[i])]
                     /\ away_batter_agg = <<AggRow(1, "BOS", "Away", 62)>>
                  \/ /\ home_batter_agg = <<AggRow(1, "KC", "Home", 62)>>
                     /\ away_batter_agg = [i \in 1..n |-> AggRow(i, "BOS", "Away", f[i])]
             \/ \E n \in 0..RollShortLen : \E f \in [1..n -> {"KC", "BOS"} \X {62, 124, 186}] :
                  /\ home_batter_agg = [i \in 1..n |-> AggRow(i, f[i][1], "Home", f[i][2])]
                  /\ away_batter_agg \in {<<>>, <<AggRow(1, "KC", "Away", 62)>>,
                                          <<AggRow(2, "BOS", "Away", 62)>>}
       \/ /\ pc = "nfl_rolling"
          /\ home_batter_agg = <<>> /\ away_batter_agg = <<>>
          /\ \/ \E n \in 0..NFLRollMaxLen : \E a \in 0..n : \E b \in a..n :
                LET f == Spikes(n, a, b, 7) IN
                  \/ /\ home_games_stats = [i \in 1..n |-> StatRow(i, "Arizona Cardinals", 1, f[i])]
                     /\ away_games_stats = <<StatRow(1, "Atlanta Falcons", 0, 3)>>
                  \/ /\ home_games_stats = <<StatRow(1, "Arizona Cardinals", 1, 3)>>
                     /\ away_games_stats = [i \in 1..n |-> StatRow(i, "Atlanta Falcons", 0, f[i])]
             \/ \E n \in 0..RollShortLen :
                \E f \in [1..n -> {"Arizona Cardinals", "Atlanta Falcons"} \X {3, 7, 10}] :
                  /\ home_games_stats = [i \in 1..n |-> StatRow(i, f[i][1], 1, f[i][2])]
                  /\ away_games_stats \in {<<>>, <<StatRow(1, "Arizona Cardinals", 0, 3)>>,
                                           <<StatRow(2, "Atlanta Falcons", 0, 3)>>}
    /\ InitOutputs

NextRoll == MLBRolling \/ MLBAssembleLatest \/ NFLRolling \/ NFLAssembleLatest

SpecRoll == InitRoll /\ [][NextRoll]_vars

-----------------------------------------------------------------------------
(* Properties of the rolling and assembly sections.                        *)

MLBHomeRollingColumn ==
    [total_adj_hits       |-> "rolling_avg_adj_hits_home_perf",
     total_adj_homers     |-> "rolling_avg_adj_homers_home_perf",
     total_adj_walks      |-> "rolling_avg_adj_walks_home_perf",
     total_adj_strikeouts |-> "rolling_avg_adj_strikeouts_home_perf"]

MLBAwayRollingColumn ==
    [total_adj_hits       |-> "rolling_avg_adj_hits_away_perf",
     total_adj_homers     |-> "rolling_avg_adj_homers_away_perf",
     total_adj_walks      |-> "rolling_avg_adj_walks_away_perf",
     total_adj_strikeouts |-> "rolling_avg_adj_strikeouts_away_perf"]

NFLHomeRollingColumn ==
    [adj_points_scored  |-> "rolling_avg_adj_pts_scored_home",
     adj_points_allowed |-> "rolling_avg_adj_pts_allowed_home"]

NFLAwayRollingColumn ==
    [adj_points_scored  |-> "rolling_avg_adj_pts_scored_away",
     adj_points_allowed |-> "rolling_avg_adj_pts_allowed_away"]

(* The mean of `col` over the up to W rows of the same team that come      *)
(* before row i of the time-ordered frame df; missing when there is none.  *)
MeanOfEarlier(df, i, col, W) ==
    LET earlier == SelectSeq(SubSeq(df, 1, i - 1), LAMBDA r : r.team = df[i].team)
        n       == Len(earlier)
        window  == SubSeq(earlier, IF n > W THEN n - W + 1 ELSE 1, n)
    IN  IF n = 0 THEN NaNF ELSE Frac(SumSeq(Col(window, col)), Len(window))

RollingIsMeanOfEarlier(df, rolling, W) ==
    \A i \in 1..Len(df) : \A col \in DOMAIN rolling :
        df[i][rolling[col]] = MeanOfEarlier(df, i, col, W)

TimeOrdered(df) ==
    \A i, j \in 1..Len(df) : i < j => df[i].commence_time <= df[j].commence_time

(* C1: once the rolling section has run, the rolling value of every game   *)
(* of a team at a location, for every statistic, is the mean of that       *)
(* statistic over the team's up to W latest strictly earlier games at that *)
(* location (W = 10 for MLB, 4 for NFL), and is missing for the team's     *)
(* first game there: never the game's own value, never another team's or   *)
(* the other location's.                                                   *)
C1_RollingWindow ==
    /\ pc \in {"mlb_assemble", "mlb_save"} =>
          /\ TimeOrdered(home_batter_agg) /\ TimeOrdered(away_batter_agg)
          /\ RollingIsMeanOfEarlier(home_batter_agg, MLBHomeRollingColumn, 10)
          /\ RollingIsMeanOfEarlier(away_batter_agg, MLBAwayRollingColumn, 10)
    /\ pc \in {"nfl_assemble", "nfl_save"} =>
          /\ TimeOrdered(home_games_stats) /\ TimeOrdered(away_games_stats)
          /\ RollingIsMeanOfEarlier(home_games_stats, NFLHomeRollingColumn, 4)
          /\ RollingIsMeanOfEarlier(away_games_stats, NFLAwayRollingColumn, 4)

(* A team's twelfth home game, whose window of ten has dropped the first   *)
(* game, the only earlier one with hits.                                   *)
C1_Witness ==
    /\ pc = "mlb_assemble"
    /\ Len(home_batter_agg) = 12
    /\ Col(home_batter_agg, "total_adj_hits") = <<60, 0, 0, 0, 0, 0, 0, 0, 0, 0, 0, 60>>
    /\ home_batter_agg[1].rolling_avg_adj_hits_home_perf = NaNF
    /\ home_batter_agg[11].rolling_avg_adj_hits_home_perf = <<6, 1>>
    /\ home_batter_agg[12].rolling_avg_adj_hits_home_perf = <<0, 1>>

TeamsOf(df) == {df[i].team : i \in 1..Len(df)}

RowOf(df, t) == CHOOSE r \in {df[i] : i \in 1..Len(df)} : r.team = t

OuterJoinOfLocations(snapshot, home, away, nullsHome, nullsAway) ==
    /\ TeamsOf(snapshot) = TeamsOf(home) \cup TeamsOf(away)
    /\ Cardinality(TeamsOf(snapshot)) = Len(snapshot)
    /\ \A i \in 1..Len(snapshot) :
          /\ snapshot[i].team \notin TeamsOf(home) => snapshot[i].x = nullsHome
          /\ snapshot[i].team \notin TeamsOf(away) => snapshot[i].y = nullsAway
          /\ snapshot[i].team \in TeamsOf(home) => snapshot[i].x # nullsHome
          /\ snapshot[i].team \in TeamsOf(away) => snapshot[i].y # nullsAway

(* C3: the assembled snapshot has exactly one row for every team with a    *)
(* per-game row at home or away; for a team with no home rows every        *)
(* home-location feature of its row is missing, and likewise for a team    *)
(* with no away rows: never zero, never the other location's value.        *)
C3_SnapshotOuterJoin ==
    /\ pc = "mlb_save" =>
          OuterJoinOfLocations(latest_features, home_batter_agg, away_batter_agg,
                               MLBHomeNulls, MLBAwayNulls)
    /\ pc = "nfl_save" =>
          OuterJoinOfLocations(latest_nfl_features, home_games_stats, away_games_stats,
                               NFLHomeNulls, NFLAwayNulls)

(* A snapshot with a team that played only at home and one only away.      *)
C3_Witness ==
    /\ pc = "mlb_save"
    /\ TeamsOf(home_batter_agg) = {"KC"}
    /\ TeamsOf(away_batter_agg) = {"BOS"}
    /\ Len(latest_features) = 2
    /\ RowOf(latest_features, "KC").y = MLBAwayNulls
    /\ RowOf(latest_features, "BOS").x = MLBHomeNulls
    /\ RowOf(latest_features, "BOS").y.total_adj_hits # NaN

LastRowOf(df, t) ==
    df[CHOOSE i \in 1..Len(df) : df[i].team = t /\ \A j \in (i + 1)..Len(df) : df[j].team # t]

SnapshotIsLatestEntry(snapshot, side, df, rolling) ==
    \A t \in TeamsOf(df) : \A col \in DOMAIN rolling :
        /\ RowOf(snapshot, t)[side][rolling[col]] = LastRowOf(df, t)[rolling[col]]
        /\ \A i \in 1..Len(df) :
              df[i].team = t => df[i].commence_time <= LastRowOf(df, t).commence_time

(* C4: for every team and location with a per-game row, each rolling       *)
(* feature of the snapshot is the rolling value of that team's latest game *)
(* at that location, the final entry of its time-ordered rolling series    *)
(* (the mean of the earlier games only; missing after a single game).      *)
C4_SnapshotIsLatestRolling ==
    /\ pc = "mlb_save" =>
          /\ SnapshotIsLatestEntry(latest_features, "x", home_batter_agg, MLBHomeRollingColumn)
          /\ SnapshotIsLatestEntry(latest_features, "y", away_batter_agg, MLBAwayRollingColumn)
    /\ pc = "nfl_save" =>
          /\ SnapshotIsLatestEntry(latest_nfl_features, "x", home_games_stats,
                                   NFLHomeRollingColumn)
          /\ SnapshotIsLatestEntry(latest_nfl_features, "y", away_games_stats,
                                   NFLAwayRollingColumn)

(* Three home games with 4, 6 and 2 adjusted hits (124, 186 and 62 in      *)
(* units of 1/31): the rolling series is missing, 4, 5 and the snapshot    *)
(* holds 5 (155/31).                                                       *)
C4_Witness ==
    /\ pc = "mlb_save"
    /\ TeamsOf(home_batter_agg) = {"KC"}
    /\ Col(home_batter_agg, "total_adj_hits") = <<124, 186, 62>>
    /\ Col(home_batter_agg, "rolling_avg_adj_hits_home_perf") = <<NaNF, <<124, 1>>, <<155, 1>>>>
    /\ RowOf(latest_features, "KC").x.rolling_avg_adj_hits_home_perf = <<155, 1>>

-----------------------------------------------------------------------------
(* Properties of the ranking section.                                      *)

TeamTotal(df, t, col) == SumSeq(Col(SelectSeq(df, LAMBDA r : r.team = t), col))

TeamGames(df, t) == Len(SelectSeq(df, LAMBDA r : r.team = t))

(* The ranking metrics of a team, as <<n, d, g>> for n / (d + g * 1e-6).   *)
SeasonEraOf(t) ==
    <<TeamTotal(pitcher_stats_df, t, "earned_runs") * 9,
      TeamTotal(pitcher_stats_df, t, "innings_pitched"), 1>>

ProductionScoreOf(t) ==
    <<TeamTotal(batter_stats_df, t, "hits") + 2 * TeamTotal(batter_stats_df, t, "home_runs"),
      TeamTotal(batter_stats_df, t, "at_bats"), 1>>

MeanPointsOf(t, col) ==
    <<TeamTotal(team_game_stats, t, col), TeamGames(team_game_stats, t), 0>>

(* `table` ranks exactly the teams of `source` with the ranks 1..N; better *)
(* (lower when `lowerIsBetter`, else higher) metric, lower rank; equal     *)
(* metrics, the earlier row of the table gets the lower rank.              *)
IsRanking(table, rank, source, Metric(_), lowerIsBetter) ==
    LET N == Len(table)
        Better(a, b) == IF lowerIsBetter THEN MetricLess(Metric(a), Metric(b))
                                         ELSE MetricLess(Metric(b), Metric(a))
    IN  /\ TeamsOf(table) = TeamsOf(source)
        /\ Cardinality(TeamsOf(table)) = N
        /\ {table[i][rank] : i \in 1..N} = 1..N
        /\ \A i, j \in 1..N :
              /\ Better(table[i].team, table[j].team) => table[i][rank] < table[j][rank]
              /\ (i < j /\ MetricEq(Metric(table[i].team), Metric(table[j].team)))
                    => table[i][rank] < table[j][rank]

(* C2: every rank table (MLB pitching: lower season ERA better; MLB        *)
(* hitting: higher production score better; NFL offence: higher mean       *)
(* points scored better; NFL defence: lower mean points allowed better)    *)
(* covers exactly the N teams of its aggregate table, its ranks are        *)
(* exactly 1..N, a strictly better metric has a strictly lower rank, and   *)
(* of two teams with equal metrics the one whose row comes earlier in the  *)
(* aggregate table has the lower rank.                                     *)
C2_RankTables ==
    /\ pc = "mlb_adjust" =>
          /\ IsRanking(team_pitching_agg, "pitching_rank", pitcher_stats_df, SeasonEraOf, TRUE)
          /\ IsRanking(team_hitting_agg, "hitting_rank", batter_stats_df, ProductionScoreOf,
                       FALSE)
    /\ pc = "nfl_map_opponent" =>
          /\ IsRanking(offensive_rank_df, "offensive_rank", team_game_stats,
                       LAMBDA t : MeanPointsOf(t, "points_scored"), FALSE)
          /\ IsRanking(defensive_rank_df, "defensive_rank", team_game_stats,
                       LAMBDA t : MeanPointsOf(t, "points_allowed"), TRUE)

(* Three hitting teams, the first two of the table tied on production      *)
(* score below the third: ranks 2, 3 and 1.                                *)
C2_Witness ==
    /\ pc = "mlb_adjust"
    /\ Len(team_hitting_agg) = 3
    /\ MetricEq(ProductionScoreOf(team_hitting_agg[1].team),
                ProductionScoreOf(team_hitting_agg[2].team))
    /\ MetricLess(ProductionScoreOf(team_hitting_agg[2].team),
                  ProductionScoreOf(team_hitting_agg[3].team))
    /\ Col(team_hitting_agg, "hitting_rank") = <<2, 3, 1>>

-----------------------------------------------------------------------------
(* Properties of the opponent-adjustment section.                          *)

GameOf(df, gid) == CHOOSE g \in {df[i] : i \in 1..Len(df)} : g.game_id = gid

HasGame(df, gid) == \E i \in 1..Len(df) : df[i].game_id = gid

(* The other team of the record's game; missing if the record's team is    *)
(* neither of the game's two.                                              *)
OpponentOf(df, gid, t) ==
    IF ~HasGame(df, gid) THEN NaNStr
    ELSE IF GameOf(df, gid).home_team = t THEN GameOf(df, gid).away_team
    ELSE IF GameOf(df, gid).away_team = t THEN GameOf(df, gid).home_team
    ELSE NaNStr

RankOf(table, rank, t) ==
    IF t \in TeamsOf(table) THEN RowOf(table, t)[rank] ELSE NaN

(* adjusted * C = raw * (2C - r), with the adjusted value in units of      *)
(* 1/(2C): adjusted = 2 * raw * (2C - r); undefined without a rank.        *)
IsAdjusted(adjusted, raw, r, twoC) ==
    IF r = NaN THEN adjusted = NaN ELSE adjusted = 2 * raw * (twoC - r)

(* C5: every adjusted value v of a raw statistic satisfies                 *)
(* v * C = raw * (2C - r), where r is the rank of the record's opponent in *)
(* its game (C = 15.5 and the opponent's pitching rank for MLB; C = 16.5   *)
(* and the opponent's defensive rank for points scored, offensive rank for *)
(* points allowed, for NFL); it is undefined when the opponent has no      *)
(* rank.                                                                   *)
C5_OpponentAdjusted ==
    /\ pc = "mlb_features" =>
          \A i \in 1..Len(batter_stats_df) :
              LET b == batter_stats_df[i]
                  r == RankOf(team_pitching_agg, "pitching_rank",
                              OpponentOf(games_df, b.game_id, b.team))
              IN  /\ IsAdjusted(b.adj_hits, b.hits, r, 31)
                  /\ IsAdjusted(b.adj_home_runs, b.home_runs, r, 31)
                  /\ IsAdjusted(b.adj_walks, b.walks, r, 31)
                  /\ IsAdjusted(b.adj_strikeouts, b.strikeouts, r, 31)
    /\ pc = "nfl_split" =>
          \A i \in 1..Len(team_game_stats) :
              LET s   == team_game_stats[i]
                  opp == OpponentOf(nfl_games_df, s.game_id, s.team)
              IN  /\ IsAdjusted(s.adj_points_scored, s.points_scored,
                                RankOf(defensive_rank_df, "defensive_rank", opp), 33)
                  /\ IsAdjusted(s.adj_points_allowed, s.points_allowed,
                                RankOf(offensive_rank_df, "offensive_rank", opp), 33)

(* A batter with hits whose opponent's pitching rank differs from his own  *)
(* team's, next to a batter whose opponent has no rank.                    *)
C5_Witness ==
    /\ pc = "mlb_features"
    /\ \E i, j \in 1..Len(batter_stats_df) :
          LET b == batter_stats_df[i]
              c == batter_stats_df[j]
              r == RankOf(team_pitching_agg, "pitching_rank",
                          OpponentOf(games_df, b.game_id, b.team))
          IN  /\ b.hits > 0 /\ r # NaN
              /\ RankOf(team_pitching_agg, "pitching_rank", b.team) \notin {r, NaN}
              /\ b.adj_hits = 2 * b.hits * (31 - r)
              /\ c.hits > 0 /\ c.pitching_rank = NaN /\ c.adj_hits = NaN

-----------------------------------------------------------------------------
(* Properties of a whole run.                                              *)

Range(f) == {f[x] : x \in DOMAIN f}

MLBCodes == Range(MLB_TEAM_NAME_MAP)

NFLNames == Range(nfl_team_name_map)

AllTeamsIn(df, known) == \A i \in 1..Len(df) : df[i].team \in known

TeamPlaysInItsGame(df) ==
    \A i \in 1..Len(df) : df[i].team \in {df[i].home_team, df[i].away_team}

(* C6: a record or game whose team name the name table cannot resolve is   *)
(* dropped: no aggregate row, rank-table entry, per-game row or snapshot   *)
(* row of either sport is keyed by a placeholder or by an unresolved raw   *)
(* name, and the team of every per-game aggregate row is the home or the   *)
(* away team of its game.                                                  *)
C6_UnresolvedNamesDropped ==
    /\ AllTeamsIn(team_pitching_agg, MLBCodes)
    /\ AllTeamsIn(team_hitting_agg, MLBCodes)
    /\ AllTeamsIn(batter_agg, MLBCodes)
    /\ AllTeamsIn(home_batter_agg, MLBCodes)
    /\ AllTeamsIn(away_batter_agg, MLBCodes)
    /\ AllTeamsIn(latest_features, MLBCodes)
    /\ TeamPlaysInItsGame(batter_agg)
    /\ AllTeamsIn(team_game_stats, NFLNames)
    /\ AllTeamsIn(offensive_rank_df, NFLNames)
    /\ AllTeamsIn(defensive_rank_df, NFLNames)
    /\ AllTeamsIn(home_games_stats, NFLNames)
    /\ AllTeamsIn(away_games_stats, NFLNames)
    /\ AllTeamsIn(latest_nfl_features, NFLNames)

BothScores(tbl, gid) ==
    \E i \in 1..Len(tbl) :
        tbl[i].game_id = gid /\ tbl[i].home_score # NaN /\ tbl[i].away_score # NaN

OnlyScoredGames(df, tbl) == \A i \in 1..Len(df) : BothScores(tbl, df[i].game_id)

OnlyScoredGamesInSnapshot(snapshot, tbl) ==
    \A i \in 1..Len(snapshot) :
        /\ snapshot[i].x.game_id # NaN => BothScores(tbl, snapshot[i].x.game_id)
        /\ snapshot[i].y.game_id # NaN => BothScores(tbl, snapshot[i].y.game_id)

(* C7: in both sports a game whose home or away score is missing           *)
(* contributes nothing: every per-game row, rolling-series entry and       *)
(* snapshot row comes from a game with both scores.                        *)
C7_UnscoredGamesContributeNothing ==
    /\ OnlyScoredGames(batter_agg, tbl_games)
    /\ OnlyScoredGames(home_batter_agg, tbl_games)
    /\ OnlyScoredGames(away_batter_agg, tbl_games)
    /\ OnlyScoredGamesInSnapshot(latest_features, tbl_games)
    /\ OnlyScoredGames(team_game_stats, tbl_nfl_games)
    /\ OnlyScoredGames(home_games_stats, tbl_nfl_games)
    /\ OnlyScoredGames(away_games_stats, tbl_nfl_games)
    /\ OnlyScoredGamesInSnapshot(latest_nfl_features, tbl_nfl_games)

RowOrders(n) == {p \in [1..n -> 1..n] : \A i, j \in 1..n : p[i] = p[j] => i = j}

Reordered(tbl, p) == [i \in 1..Len(tbl) |-> tbl[p[i]]] \o <<>>

(* C8: the snapshot does not depend on the order of the rows of the input  *)
(* tables, games with identical timestamps included: the same rows of the  *)
(* games table in any other order (and the stat tables reversed) give the  *)
(* snapshot the run has assembled.                                         *)
C8_RowOrderIndependent ==
    /\ pc = "mlb_save" =>
          \A p \in RowOrders(Len(tbl_games)) :
              /\ MLBSnapshotOf(Reordered(tbl_games, p), tbl_batter_stats, tbl_pitcher_stats)
                    = latest_features
              /\ MLBSnapshotOf(Reordered(tbl_games, p), Reverse(tbl_batter_stats),
                               Reverse(tbl_pitcher_stats)) = latest_features
    /\ pc = "nfl_save" =>
          \A p \in RowOrders(Len(tbl_nfl_games)) :
              NFLSnapshotOf(Reordered(tbl_nfl_games, p)) = latest_nfl_features

(* The same, for the MLB run alone.                                        *)
MLBRowOrderIndependent ==
    pc = "mlb_save" =>
        \A p \in RowOrders(Len(tbl_games)) :
            /\ MLBSnapshotOf(Reordered(tbl_games, p), tbl_batter_stats, tbl_pitcher_stats)
                  = latest_features
            /\ MLBSnapshotOf(Reordered(tbl_games, p), Reverse(tbl_batter_stats),
                             Reverse(tbl_pitcher_stats)) = latest_features

-----------------------------------------------------------------------------
(* Properties of main.                                                     *)

MLBTables == {"games", "batter_stats", "pitcher_stats"}

NFLTables == {"nfl_games"}

(* C10: a run whose table is absent from the database hands its caller a   *)
(* failure outcome that differs from what a successful run hands back, and *)
(* writes no snapshot.                                                     *)
C10_AbsentTableReported ==
    /\ (returned.mlb # "pending" /\ ~(MLBTables \subseteq db_present)) =>
          /\ returned.mlb # MLBReturnAfterSuccess
          /\ files[MLBOutputFilename] = PreviousFiles[MLBOutputFilename]
    /\ (returned.nfl # "pending" /\ ~(NFLTables \subseteq db_present)) =>
          /\ returned.nfl # NFLReturnAfterSuccess
          /\ files[NFLOutputFilename] = PreviousFiles[NFLOutputFilename]

MLBSteps ==
    {"mlb_load", "mlb_clean", "mlb_rank", "mlb_adjust", "mlb_features", "mlb_rolling",
     "mlb_assemble", "mlb_save"}

NFLSteps ==
    {"nfl_load", "nfl_clean", "nfl_rank", "nfl_map_opponent", "nfl_split", "nfl_rolling",
     "nfl_assemble", "nfl_save"}

(* C9: main runs the MLB run to its end before the NFL run starts; a       *)
(* failure of one run neither stops the other from executing nor changes   *)
(* what it produces (the NFL run after a failed MLB run writes exactly the *)
(* snapshot of its own table), and no run writes or alters the other       *)
(* run's file.                                                             *)
C9_SequentialIsolatedRuns ==
    /\ pc \in MLBSteps => returned.nfl = "pending" /\ printed.nfl = "nothing"
    /\ pc \in NFLSteps \cup {"nfl_returned"} => returned.mlb # "pending"
    /\ (pc = "exit" /\ returned.mlb # "pending") => returned.nfl # "pending"
    /\ printed.nfl = "nothing" => files[NFLOutputFilename] = PreviousFiles[NFLOutputFilename]
    /\ printed.nfl = "success" =>
          files[NFLOutputFilename] =
              [state |-> "written", data |-> NFLSnapshotOf(tbl_nfl_games)]
    /\ printed.mlb = "nothing" => files[MLBOutputFilename] = PreviousFiles[MLBOutputFilename]
    /\ printed.mlb = "success" =>
          files[MLBOutputFilename] =
              [state |-> "written",
               data |-> MLBSnapshotOf(tbl_games, tbl_batter_stats, tbl_pitcher_stats)]
    /\ printed.mlb = "error" => files[MLBOutputFilename].state \in {"previous", "truncated"}
    /\ printed.nfl = "error" => files[NFLOutputFilename].state \in {"previous", "truncated"}

(* main has ended; the MLB run failed and left its file alone, the NFL run *)
(* after it wrote its snapshot.                                            *)
C9_Witness ==
    /\ pc = "exit"
    /\ printed.mlb = "error"
    /\ files[MLBOutputFilename] = PreviousFiles[MLBOutputFilename]
    /\ printed.nfl = "success"
    /\ files[NFLOutputFilename].state = "written"
    /\ Len(files[NFLOutputFilename].data) = 2
====
